---------------------------- MODULE Spec2Model ----------------------------
(***************************************************************************)
(* A model of the RAG pipeline of production-ai-support-agent:             *)
(*   - src/main.py: the two workflow functions rag_ingest_pdf              *)
(*     (load-and-chunk, embed-and-upsert) and rag_query_pdf_ai             *)
(*     (embed-and-search, llm-answer);                                     *)
(*   - src/streamlit_app.py: the polling client get_run_output.            *)
(* Python strings that the code takes apart or builds (source ids, the     *)
(* key f"{source_id}:{i}") are sequences of one-character strings.         *)
(* Python's None is the empty sequence and a present value x is <<x>>.     *)
(* Python lists are 1-based sequences: list index i is position i + 1.     *)
(***************************************************************************)
EXTENDS Integers, Sequences, FiniteSets, TLC

(***************************************************************************)
(* Bounds of the model.                                                    *)
(***************************************************************************)
NumIngest == 2
NumQuery == 2
MaxChunks == 2
MaxTopK == 2
MaxIdx == 11
MaxSourceLen == 3
MaxTimeout == 3
MaxReqDur == 2

IngestRuns == 1..NumIngest
QueryRuns == 1..NumQuery

None == <<>>
Some(x) == <<x>>

Range(s) == {s[j] : j \in 1..Len(s)}

(***************************************************************************)
(* Inputs.  The uploaded file's path, the source ids an event may carry    *)
(* (one of them holds ':' and a digit), and the texts of chunks.           *)
(***************************************************************************)
PdfPaths == {<<"a">>}
SourceIds == {<<"a", ":", "1">>}
Texts == {"t1", "t2"}
Questions == {"q1"}

\* The event data of rag/ingest_pdf: source_id is an optional key.
IngestEvents ==
    {[pdf_path |-> p] : p \in PdfPaths}
    \cup {[pdf_path |-> p, source_id |-> s] : p \in PdfPaths, s \in SourceIds}

\* What load_and_chunk_pdf may return: up to MaxChunks chunks; the file at one
\* path may hold another text on a later upload.
ChunkLists == {[j \in 1..n |-> t] : n \in 0..MaxChunks, t \in Texts}

(***************************************************************************)
(* Id generation (main.py line 58).                                        *)
(***************************************************************************)
DigitChar == <<"0", "1", "2", "3", "4", "5", "6", "7", "8", "9">>

\* str(i) of a non-negative int: its decimal digits, no leading zero.
RECURSIVE Str(_)
Str(n) ==
    IF n < 10 THEN <<DigitChar[n + 1]>>
    ELSE Str(n \div 10) \o <<DigitChar[(n % 10) + 1]>>

\* Faulty keys: the separator left out; the index left out.
ChunkKeyNoSep(source_id, i) == source_id \o Str(i)
ChunkKeyNoIndex(source_id, i) == source_id \o <<":">>

\* f"{source_id}:{i}"
ChunkKey(source_id, i) == source_id \o <<":">> \o Str(i)

NAMESPACE_URL == "6ba7b811-9dad-11d1-80b4-00c04fd430c8"

\* str(uuid.uuid5(namespace, name)): a hash of (namespace, name), taken to be
\* collision-free, so the id stands for the pair it was computed from.
Uuid5(namespace, name) == <<namespace, name>>

\* ids = [str(uuid5(NAMESPACE_URL, f"{source_id}:{i}")) for i in range(n)]
ChunkIds(source_id, n) == [j \in 1..n |-> Uuid5(NAMESPACE_URL, ChunkKey(source_id, j - 1))]

\* payloads = [{"source": source_id, "text": chunks[i]} for i in range(n)]
ChunkPayloads(source_id, chunks) ==
    [j \in 1..Len(chunks) |-> [source |-> source_id, text |-> chunks[j]]]

(***************************************************************************)
(* The adapters main.py imports (data_loader, vector_db), from the spec.   *)
(***************************************************************************)
\* embed_texts: one vector per text.
EmbedTexts(texts) == [j \in 1..Len(texts) |-> <<"vec", texts[j]>>]

\* QdrantStorage.upsert(ids, vectors, payloads): insert-or-overwrite keyed by
\* id; of two entries with one id the later wins.
StorageUpsert(st, ids, vecs, payloads) ==
    LET last(id) == CHOOSE j \in 1..Len(ids) :
                        /\ ids[j] = id
                        /\ \A k \in (j + 1)..Len(ids) : ids[k] # id
    IN [id \in DOMAIN st \cup Range(ids) |->
            IF id \in Range(ids)
            THEN [vector |-> vecs[last(id)], payload |-> payloads[last(id)]]
            ELSE st[id]]

EmptyStore == [id \in {} |-> 0]

\* The store with the records of `source` removed.
WithoutSource(st, source) ==
    [id \in {x \in DOMAIN st : st[x].payload.source # source} |-> st[id]]

\* Faulty batches: the source's old records dropped first; ids numbered on
\* from the records the store holds.
UpsertBatchReplace(st, cs) ==
    StorageUpsert(WithoutSource(st, cs.source_id),
                  ChunkIds(cs.source_id, Len(cs.chunks)),
                  EmbedTexts(cs.chunks),
                  ChunkPayloads(cs.source_id, cs.chunks))

UpsertBatchAppend(st, cs) ==
    LET base == Cardinality(DOMAIN st)
    IN StorageUpsert(st,
                     [j \in 1..Len(cs.chunks) |->
                         Uuid5(NAMESPACE_URL, ChunkKey(cs.source_id, base + j - 1))],
                     EmbedTexts(cs.chunks),
                     ChunkPayloads(cs.source_id, cs.chunks))

\* _upsert lines 57-61: embed, build ids and payloads, upsert them.
UpsertBatch(st, cs) ==
    StorageUpsert(st,
                  ChunkIds(cs.source_id, Len(cs.chunks)),
                  EmbedTexts(cs.chunks),
                  ChunkPayloads(cs.source_id, cs.chunks))

\* The first k entries of the batch: what a failing upsert may have written.
Prefix(cs, k) == [chunks |-> SubSeq(cs.chunks, 1, k), source_id |-> cs.source_id]

(***************************************************************************)
(* State.                                                                  *)
(***************************************************************************)
VARIABLES
    store,       \* the vector store: id -> [vector, payload = [source, text]]
    ipc,         \* ingest run -> "pending" | "load" | "upsert" | "return" | "done" | "failed"
    ievent,      \* ingest run -> ctx.event.data
    loaded,      \* ingest run -> chunks_and_src, the output of load-and-chunk
    ids,         \* ingest run -> the list ids built by _upsert
    ingested,    \* ingest run -> ingested, the output of embed-and-upsert
    iresult,     \* ingest run -> the run's return value {ingested: n}
    stepErr,     \* ingest run -> the step that raised, as the engine records it
    lastUpsert,  \* history: the ingest run whose upsert last wrote the store (0: none)
    dedupSources,\* whether the store adapter lists each source once
    qpc,         \* query run -> "pending" | "search" | "infer" | "done" | "failed"
    qevent,      \* query run -> ctx.event.data
    found,       \* query run -> the output of embed-and-search
    qresult,     \* query run -> the run's return value
    keySet,      \* INNGEST_EVENT_KEY is non-empty
    ppc,         \* get_run_output: "idle" | "check" | "request" | "sleep" | "done"
    now,         \* time.time(), in seconds
    start_time,  \* get_run_output's start_time
    timeout,     \* get_run_output's timeout
    run,         \* get_run_output's run, the dict runs[0] of the last response
    status,      \* get_run_output's status
    exc,         \* the exception get_run_output caught
    result,      \* what get_run_output returned
    engineRun    \* the run as the engine's API reports it

ingestVars == <<ipc, ievent, loaded, ids, ingested, iresult, stepErr, lastUpsert>>
queryVars == <<dedupSources, qpc, qevent, found, qresult>>
pollVars == <<keySet, ppc, now, start_time, timeout, run, status, exc, result, engineRun>>
vars == <<store, ingestVars, queryVars, pollVars>>

(***************************************************************************)
(* rag_ingest_pdf.                                                         *)
(***************************************************************************)
\* The event rag/ingest_pdf triggers a run (streamlit_app.py lines 204-212).
SubmitIngest(r, data) ==
    /\ ipc[r] = "pending"
    /\ ipc' = [ipc EXCEPT ![r] = "load"]
    /\ ievent' = [ievent EXCEPT ![r] = Some(data)]
    /\ UNCHANGED <<store, loaded, ids, ingested, iresult, stepErr, lastUpsert, queryVars, pollVars>>

\* source_id = ctx.event.data.get("source_id", pdf_path)
EventSourceId(data) ==
    IF "source_id" \in DOMAIN data THEN data.source_id ELSE data.pdf_path

\* Step load-and-chunk succeeds: _load returns the chunks of the PDF.
LoadOk(r, chunks) ==
    /\ ipc[r] = "load"
    /\ loaded' = [loaded EXCEPT ![r] =
                     Some([chunks |-> chunks, source_id |-> EventSourceId(ievent[r][1])])]
    /\ ipc' = [ipc EXCEPT ![r] = "upsert"]
    /\ UNCHANGED <<store, ievent, ids, ingested, iresult, stepErr, lastUpsert, queryVars, pollVars>>

\* A faulty load-and-chunk: the error is swallowed and the run goes on with no chunks.
LoadFailSwallowed(r) ==
    /\ ipc[r] = "load"
    /\ stepErr' = [stepErr EXCEPT ![r] = "load-and-chunk"]
    /\ loaded' = [loaded EXCEPT ![r] =
                     Some([chunks |-> <<>>, source_id |-> EventSourceId(ievent[r][1])])]
    /\ ipc' = [ipc EXCEPT ![r] = "upsert"]
    /\ UNCHANGED <<store, ievent, ids, ingested, iresult, lastUpsert, queryVars, pollVars>>

\* Step load-and-chunk raises: the run fails, nothing after it runs.  (A step
\* the engine retries under its own policy is taken at its last attempt.)
LoadFail(r) ==
    /\ ipc[r] = "load"
    /\ stepErr' = [stepErr EXCEPT ![r] = "load-and-chunk"]
    /\ ipc' = [ipc EXCEPT ![r] = "failed"]
    /\ UNCHANGED <<store, ievent, loaded, ids, ingested, iresult, lastUpsert, queryVars, pollVars>>

\* Step embed-and-upsert succeeds: _upsert has written the store and returned
\* RAGUpsertResult, which the engine keeps as the step's output. The run has
\* not returned yet.
UpsertOk(r) ==
    /\ ipc[r] = "upsert"
    /\ LET cs == loaded[r][1]
       IN /\ ids' = [ids EXCEPT ![r] = ChunkIds(cs.source_id, Len(cs.chunks))]
          /\ store' = UpsertBatch(store, cs)
          /\ ingested' = [ingested EXCEPT ![r] = Some([ingested |-> Len(cs.chunks)])]
    /\ lastUpsert' = r
    /\ ipc' = [ipc EXCEPT ![r] = "return"]
    /\ UNCHANGED <<ievent, loaded, iresult, stepErr, queryVars, pollVars>>

\* The engine resumes the run with the step's output: return ingested.model_dump().
ReturnIngested(r) ==
    /\ ipc[r] = "return"
    /\ iresult' = [iresult EXCEPT ![r] = ingested[r]]
    /\ ipc' = [ipc EXCEPT ![r] = "done"]
    /\ UNCHANGED <<store, ievent, loaded, ids, ingested, stepErr, lastUpsert, queryVars, pollVars>>

\* The run is not resumed after the step (cancelled, or the hand-over of the
\* step's output fails): it ends with the records written and no result.
ResumeFail(r) ==
    /\ ipc[r] = "return"
    /\ ipc' = [ipc EXCEPT ![r] = "failed"]
    /\ UNCHANGED <<store, ievent, loaded, ids, ingested, iresult, stepErr, lastUpsert, queryVars, pollVars>>

\* embed_texts raises inside embed-and-upsert: no id is built, nothing written.
EmbedFail(r) ==
    /\ ipc[r] = "upsert"
    /\ stepErr' = [stepErr EXCEPT ![r] = "embed-and-upsert"]
    /\ ipc' = [ipc EXCEPT ![r] = "failed"]
    /\ UNCHANGED <<store, ievent, loaded, ids, ingested, iresult, lastUpsert, queryVars, pollVars>>

\* QdrantStorage().upsert raises after writing the first k entries.
UpsertFail(r, k) ==
    /\ ipc[r] = "upsert"
    /\ LET cs == loaded[r][1]
       IN /\ k \in 0..Len(cs.chunks)
          /\ ids' = [ids EXCEPT ![r] = ChunkIds(cs.source_id, Len(cs.chunks))]
          /\ store' = UpsertBatch(store, Prefix(cs, k))
    /\ lastUpsert' = (IF k = 0 THEN lastUpsert ELSE r)
    /\ stepErr' = [stepErr EXCEPT ![r] = "embed-and-upsert"]
    /\ ipc' = [ipc EXCEPT ![r] = "failed"]
    /\ UNCHANGED <<ievent, loaded, ingested, iresult, queryVars, pollVars>>

(***************************************************************************)
(* rag_query_pdf_ai.                                                       *)
(***************************************************************************)
DefaultTopK == 5

\* The event data of rag/query_pdf_ai: top_k is an optional key.
QueryEvents ==
    {[question |-> q] : q \in Questions}
    \cup {[question |-> q, top_k |-> k] : q \in Questions, k \in 1..MaxTopK}

\* top_k = int(ctx.event.data.get("top_k", 5))
EventTopK(data) == IF "top_k" \in DOMAIN data THEN data.top_k ELSE DefaultTopK

\* The store's records ranked by similarity to the query vector, taken here
\* as one fixed order of the ids.
RECURSIVE Ranked(_)
Ranked(S) ==
    IF S = {} THEN <<>>
    ELSE LET x == CHOOSE y \in S : TRUE IN <<x>> \o Ranked(S \ {x})

\* A list without its repeated elements, first occurrences kept.
RECURSIVE Dedup(_)
Dedup(s) ==
    IF s = <<>> THEN <<>>
    ELSE LET front == Dedup(SubSeq(s, 1, Len(s) - 1))
         IN IF s[Len(s)] \in Range(front) THEN front ELSE Append(front, s[Len(s)])

Min(a, b) == IF a < b THEN a ELSE b

\* QdrantStorage.search(query_vec, top_k) returning m hits: the matched texts
\* and their source ids (one per hit, or each source once).
StorageSearch(st, m, dedup) ==
    LET order == SubSeq(Ranked(DOMAIN st), 1, m)
        srcs == [j \in 1..m |-> st[order[j]].payload.source]
    IN [contexts |-> [j \in 1..m |-> st[order[j]].payload.text],
        sources |-> IF dedup THEN Dedup(srcs) ELSE srcs]

\* The content of an LLM reply is a sequence of code points. The code points
\* str.strip() removes: those for which str.isspace() holds.
Whitespace ==
    {9, 10, 11, 12, 13, 28, 29, 30, 31, 32, 133, 160, 5760}
    \cup (8192..8202) \cup {8232, 8233, 8239, 8287, 12288}

\* str.strip(): leading and trailing whitespace removed.
RECURSIVE Strip(_)
Strip(s) ==
    IF s = <<>> THEN s
    ELSE IF s[1] \in Whitespace THEN Strip(Tail(s))
    ELSE IF s[Len(s)] \in Whitespace THEN Strip(SubSeq(s, 1, Len(s) - 1))
    ELSE s

\* The content of the first choice of the LLM's response.
\* "ok", "\nok\n", "\tok \r\n" and "\xa0o k\u2003".
LlmContents ==
    {<<111, 107>>, <<10, 111, 107, 10>>, <<9, 111, 107, 32, 13, 10>>,
     <<160, 111, 32, 107, 8195>>}

\* A faulty result: the contexts counted by the length of the source list.
QueryResultBySources(answer, fnd) ==
    [answer |-> answer, sources |-> fnd.sources, num_contexts |-> Len(fnd.sources)]

\* The dict rag_query_pdf_ai returns (lines 135-139).
QueryResult(answer, fnd) ==
    [answer |-> answer, sources |-> fnd.sources, num_contexts |-> Len(fnd.contexts)]

\* The event rag/query_pdf_ai triggers a run (streamlit_app.py lines 270-278).
SubmitQuery(q, data) ==
    /\ qpc[q] = "pending"
    /\ qevent' = [qevent EXCEPT ![q] = Some(data)]
    /\ qpc' = [qpc EXCEPT ![q] = "search"]
    /\ UNCHANGED <<store, ingestVars, dedupSources, found, qresult, pollVars>>

\* A faulty search: the question's vector is kept in the store.
SearchOkCaching(q, m) ==
    /\ qpc[q] = "search"
    /\ m \in 0..Min(EventTopK(qevent[q][1]), Cardinality(DOMAIN store))
    /\ found' = [found EXCEPT ![q] = Some(StorageSearch(store, m, dedupSources))]
    /\ store' = StorageUpsert(store,
                              <<Uuid5(NAMESPACE_URL, <<"q">>)>>,
                              EmbedTexts(<<qevent[q][1].question>>),
                              <<[source |-> <<"q">>, text |-> qevent[q][1].question]>>)
    /\ qpc' = [qpc EXCEPT ![q] = "infer"]
    /\ UNCHANGED <<ingestVars, dedupSources, qevent, qresult, pollVars>>

\* Step embed-and-search succeeds: _search returns RAGSearchResult with the
\* m hits the store found, at most top_k of them.
SearchOk(q, m) ==
    /\ qpc[q] = "search"
    /\ m \in 0..Min(EventTopK(qevent[q][1]), Cardinality(DOMAIN store))
    /\ found' = [found EXCEPT ![q] = Some(StorageSearch(store, m, dedupSources))]
    /\ qpc' = [qpc EXCEPT ![q] = "infer"]
    /\ UNCHANGED <<store, ingestVars, dedupSources, qevent, qresult, pollVars>>

\* Step embed-and-search raises.
SearchFail(q) ==
    /\ qpc[q] = "search"
    /\ qpc' = [qpc EXCEPT ![q] = "failed"]
    /\ UNCHANGED <<store, ingestVars, dedupSources, qevent, found, qresult, pollVars>>

\* Step llm-answer succeeds and the answer is read from the response.
InferOk(q, content) ==
    /\ qpc[q] = "infer"
    /\ qresult' = [qresult EXCEPT ![q] = Some(QueryResult(Strip(content), found[q][1]))]
    /\ qpc' = [qpc EXCEPT ![q] = "done"]
    /\ UNCHANGED <<store, ingestVars, dedupSources, qevent, found, pollVars>>

\* Step llm-answer raises, or the response lacks choices[0].message.content.
InferFail(q) ==
    /\ qpc[q] = "infer"
    /\ qpc' = [qpc EXCEPT ![q] = "failed"]
    /\ UNCHANGED <<store, ingestVars, dedupSources, qevent, found, qresult, pollVars>>

(***************************************************************************)
(* get_run_output (streamlit_app.py lines 57-131).                         *)
(***************************************************************************)
DefaultTimeout == 120
SleepSecs == 1

Timeouts == (0..MaxTimeout) \cup {DefaultTimeout}

SuccessStatuses == {"Completed", "Succeeded", "Finished"}
FailureStatuses == {"Failed", "Cancelled"}
EngineStatuses == {"Queued", "Running"} \cup SuccessStatuses \cup FailureStatuses

\* str.lower() on the status strings.
Lower(s) ==
    CASE s = "Queued" -> "queued"
      [] s = "Running" -> "running"
      [] s = "Completed" -> "completed"
      [] s = "Succeeded" -> "succeeded"
      [] s = "Finished" -> "finished"
      [] s = "Failed" -> "failed"
      [] s = "Cancelled" -> "cancelled"
      [] s = "Unknown" -> "unknown"

\* dict.get(key, default)
DictGet(d, key, default) == IF key \in DOMAIN d THEN d[key] ELSE default

\* The dict d without key.
DictDrop(d, key) == [k \in DOMAIN d \ {key} |-> d[k]]

EmptyDict == "{}"
RunOutputs == {"{ingested: 2}"}

KeyNotSetError == <<"INNGEST_EVENT_KEY not set. Check Inngest Dashboard manually.">>
TimeoutError == <<"Timeout waiting for result">>
RunError(s) == <<"Run ", Lower(s)>>

ExcKinds == {"RequestException", "Exception"}
ExcMessages == {"boom"}

\* f"Network error: {str(e)}" for a requests exception, f"Error: {str(e)}" otherwise.
ExcError(e) ==
    IF e.kind = "RequestException" THEN <<"Network error: ", e.msg>>
    ELSE <<"Error: ", e.msg>>

SuccessResult(output) == [success |-> TRUE, output |-> output]
FailureResult(error) == [success |-> FALSE, error |-> error]

\* A faulty mapping: a cancelled run is polled on.
StatusOutcomeCancelledPending(s) ==
    IF s \in SuccessStatuses THEN "success"
    ELSE IF s = "Failed" THEN "failure"
    ELSE "continue"

\* Lines 92-106: what a status leads to.
StatusOutcome(s) ==
    IF s \in {"Completed", "Succeeded", "Finished"} THEN "success"
    ELSE IF s \in {"Failed", "Cancelled"} THEN "failure"
    ELSE "continue"

\* The call with no event key: lines 59-63.
CallNoKey(t) ==
    /\ ppc = "idle"
    /\ ~keySet
    /\ timeout' = t
    /\ result' = Some(FailureResult(KeyNotSetError))
    /\ ppc' = "done"
    /\ UNCHANGED <<keySet, now, start_time, run, status, exc, engineRun>>
    /\ UNCHANGED <<store, ingestVars, queryVars>>

\* The call with an event key: start_time = time.time().
CallStart(t) ==
    /\ ppc = "idle"
    /\ keySet
    /\ timeout' = t
    /\ start_time' = now
    /\ ppc' = "check"
    /\ UNCHANGED <<keySet, now, run, status, exc, result, engineRun>>
    /\ UNCHANGED <<store, ingestVars, queryVars>>

\* A faulty loop test: <= for <.
LoopCheckInclusive ==
    /\ ppc = "check"
    /\ IF now - start_time <= timeout
       THEN /\ ppc' = "request"
            /\ UNCHANGED result
       ELSE /\ ppc' = "done"
            /\ result' = Some(FailureResult(TimeoutError))
    /\ UNCHANGED <<keySet, now, start_time, timeout, run, status, exc, engineRun>>
    /\ UNCHANGED <<store, ingestVars, queryVars>>

\* while time.time() - start_time < timeout: ... ; after it, the timeout result.
LoopCheck ==
    /\ ppc = "check"
    /\ IF now - start_time < timeout
       THEN /\ ppc' = "request"
            /\ UNCHANGED result
       ELSE /\ ppc' = "done"
            /\ result' = Some(FailureResult(TimeoutError))
    /\ UNCHANGED <<keySet, now, start_time, timeout, run, status, exc, engineRun>>
    /\ UNCHANGED <<store, ingestVars, queryVars>>

\* The response is not a 200 after d seconds: nothing is read from it.
RespNot200(d) ==
    /\ ppc = "request"
    /\ now' = now + d
    /\ ppc' = "sleep"
    /\ UNCHANGED <<keySet, start_time, timeout, run, status, exc, result, engineRun>>
    /\ UNCHANGED <<store, ingestVars, queryVars>>

\* A 200 whose "data" is missing or empty.
RespNoRuns(d) ==
    /\ ppc = "request"
    /\ now' = now + d
    /\ ppc' = "sleep"
    /\ UNCHANGED <<keySet, start_time, timeout, run, status, exc, result, engineRun>>
    /\ UNCHANGED <<store, ingestVars, queryVars>>

\* A 200 with runs: run = runs[0], its status (default "Unknown") decides.
RespRun(d, dropStatus) ==
    /\ ppc = "request"
    /\ now' = now + d
    /\ LET rd == IF dropStatus THEN DictDrop(engineRun, "status") ELSE engineRun
           st == DictGet(rd, "status", "Unknown")
       IN /\ run' = Some(rd)
          /\ status' = Some(st)
          /\ CASE StatusOutcome(st) = "success" ->
                    /\ result' = Some(SuccessResult(DictGet(rd, "output", EmptyDict)))
                    /\ ppc' = "done"
               [] StatusOutcome(st) = "failure" ->
                    /\ result' = Some(FailureResult(RunError(st)))
                    /\ ppc' = "done"
               [] OTHER ->
                    /\ UNCHANGED result
                    /\ ppc' = "sleep"
    /\ UNCHANGED <<keySet, start_time, timeout, exc, engineRun>>
    /\ UNCHANGED <<store, ingestVars, queryVars>>

\* A faulty handler: the exception is noted and the loop goes on.
RequestRaisesRetried(d, e) ==
    /\ ppc = "request"
    /\ now' = now + d
    /\ exc' = Some(e)
    /\ ppc' = "sleep"
    /\ UNCHANGED <<keySet, start_time, timeout, run, status, result, engineRun>>
    /\ UNCHANGED <<store, ingestVars, queryVars>>

\* The request, or reading its response, raises after d seconds: lines 110-123.
RequestRaises(d, e) ==
    /\ ppc = "request"
    /\ now' = now + d
    /\ exc' = Some(e)
    /\ result' = Some(FailureResult(ExcError(e)))
    /\ ppc' = "done"
    /\ UNCHANGED <<keySet, start_time, timeout, run, status, engineRun>>
    /\ UNCHANGED <<store, ingestVars, queryVars>>

\* time.sleep(1)
Sleep ==
    /\ ppc = "sleep"
    /\ now' = now + SleepSecs
    /\ ppc' = "check"
    /\ UNCHANGED <<keySet, start_time, timeout, run, status, exc, result, engineRun>>
    /\ UNCHANGED <<store, ingestVars, queryVars>>

\* The engine moves the run on: queued, running, then a terminal status; a
\* run that succeeded may carry an output.
EngineAdvance(next) ==
    /\ \/ /\ engineRun.status = "Queued"
          /\ next = [status |-> "Running"]
       \/ /\ engineRun.status = "Running"
          /\ \/ next \in {[status |-> s] : s \in SuccessStatuses \cup FailureStatuses}
             \/ next \in {[status |-> s, output |-> o] : s \in SuccessStatuses, o \in RunOutputs}
    /\ engineRun' = next
    /\ UNCHANGED <<keySet, ppc, now, start_time, timeout, run, status, exc, result>>
    /\ UNCHANGED <<store, ingestVars, queryVars>>

EngineRuns ==
    {[status |-> s] : s \in EngineStatuses}
    \cup {[status |-> s, output |-> o] : s \in SuccessStatuses, o \in RunOutputs}

Exceptions == {[kind |-> k, msg |-> m] : k \in ExcKinds, m \in ExcMessages}

(***************************************************************************)
(* Specifications.                                                         *)
(***************************************************************************)
IngestIdle ==
    /\ ipc = [r \in IngestRuns |-> "pending"]
    /\ ievent = [r \in IngestRuns |-> None]
    /\ loaded = [r \in IngestRuns |-> None]
    /\ ids = [r \in IngestRuns |-> <<>>]
    /\ ingested = [r \in IngestRuns |-> None]
    /\ iresult = [r \in IngestRuns |-> None]
    /\ stepErr = [r \in IngestRuns |-> "none"]
    /\ lastUpsert = 0

QueryIdle ==
    /\ qpc = [q \in QueryRuns |-> "pending"]
    /\ qevent = [q \in QueryRuns |-> None]
    /\ found = [q \in QueryRuns |-> None]
    /\ qresult = [q \in QueryRuns |-> None]

PollIdle ==
    /\ ppc = "idle"
    /\ now = 0
    /\ start_time = 0
    /\ timeout = 0
    /\ run = None
    /\ status = None
    /\ exc = None
    /\ result = None
    /\ engineRun = [status |-> "Queued"]

\* The ingest workflow on an empty store.
Init ==
    /\ store = EmptyStore
    /\ IngestIdle
    /\ dedupSources = FALSE
    /\ QueryIdle
    /\ keySet = TRUE
    /\ PollIdle

Next ==
    \/ \E r \in IngestRuns, data \in IngestEvents : SubmitIngest(r, data)
    \/ \E r \in IngestRuns, chunks \in ChunkLists : LoadOk(r, chunks)
    \/ \E r \in IngestRuns : LoadFail(r)
    \/ \E r \in IngestRuns : UpsertOk(r)
    \/ \E r \in IngestRuns : ReturnIngested(r)
    \/ \E r \in IngestRuns : ResumeFail(r)
    \/ \E r \in IngestRuns : EmbedFail(r)
    \/ \E r \in IngestRuns, k \in 0..MaxChunks : UpsertFail(r, k)

Spec == Init /\ [][Next]_vars

\* The stores ingest runs leave: up to MaxChunks records of one source (text t1),
\* at most one record of the other (text t2).
SeedStores ==
    {UpsertBatch(UpsertBatch(EmptyStore,
                             [chunks |-> [j \in 1..n |-> "t1"], source_id |-> <<"a">>]),
                 [chunks |-> [j \in 1..m |-> "t2"], source_id |-> <<"a", ":", "1">>])
        : n \in 0..MaxChunks, m \in 0..1}

\* The query workflow on a store that ingest runs have filled.
QueryInit ==
    /\ store \in SeedStores
    /\ IngestIdle
    /\ dedupSources \in BOOLEAN
    /\ QueryIdle
    /\ keySet = TRUE
    /\ PollIdle

QueryNext ==
    \/ \E q \in QueryRuns, data \in QueryEvents : SubmitQuery(q, data)
    \/ \E q \in QueryRuns, m \in 0..Cardinality(DOMAIN store) : SearchOk(q, m)
    \/ \E q \in QueryRuns : SearchFail(q)
    \/ \E q \in QueryRuns, content \in LlmContents : InferOk(q, content)
    \/ \E q \in QueryRuns : InferFail(q)

QuerySpec == QueryInit /\ [][QueryNext]_vars

\* The polling client and the engine's run it polls.
PollInit ==
    /\ store = EmptyStore
    /\ IngestIdle
    /\ dedupSources = FALSE
    /\ QueryIdle
    /\ keySet \in BOOLEAN
    /\ PollIdle

ClientStep ==
    \/ \E t \in Timeouts : CallNoKey(t)
    \/ \E t \in Timeouts : CallStart(t)
    \/ LoopCheck
    \/ \E d \in 0..MaxReqDur : RespNot200(d)
    \/ \E d \in 0..MaxReqDur : RespNoRuns(d)
    \/ \E d \in 0..MaxReqDur, dropStatus \in BOOLEAN : RespRun(d, dropStatus)
    \/ \E d \in 0..MaxReqDur, e \in Exceptions : RequestRaises(d, e)
    \/ Sleep

PollNext ==
    \/ ClientStep
    \/ \E next \in EngineRuns : EngineAdvance(next)

PollSpec == PollInit /\ [][PollNext]_vars

\* The client is scheduled: a request returns or raises, a sleep ends.
PollFair == PollSpec /\ WF_vars(ClientStep)

(***************************************************************************)
(* Properties of the ingest workflow (Spec).                               *)
(***************************************************************************)
\* Run r takes its embed-and-upsert step and the step succeeds.
UpsertOkStep(r) == ipc[r] = "upsert" /\ ipc'[r] = "return"

\* Run r returns its result.
ReturnStep(r) == ipc[r] = "return" /\ ipc'[r] = "done"

\* Run r takes its embed-and-upsert step, whatever its outcome.
UpsertStep(r) == ipc[r] = "upsert" /\ ipc'[r] # "upsert"

StorePayloads(st) == [id \in DOMAIN st |-> st[id].payload]

SourceRecords(st, source) == {id \in DOMAIN st : st[id].payload.source = source}

\* C1: re-ingestion is idempotent. When a run upserts (source_id, chunks) onto
\* the store as the last successful upsert of the same (source_id, chunks)
\* left it, it builds the same id list and the store keeps the same ids, the same
\* payloads and the same number of records.
C1_ReingestIdempotent ==
    [][\A r \in IngestRuns :
          (/\ UpsertOkStep(r)
           /\ lastUpsert \in IngestRuns
           /\ ingested[lastUpsert] # None
           /\ loaded[lastUpsert] = loaded[r])
          => /\ ids'[r] = ids[lastUpsert]
             /\ DOMAIN store' = DOMAIN store
             /\ StorePayloads(store') = StorePayloads(store)
             /\ Cardinality(DOMAIN store') = Cardinality(DOMAIN store)]_vars

\* Two runs ingested the same two chunks of one source, one after the other,
\* and the store holds two records.
C1_Witness ==
    \E r1, r2 \in IngestRuns :
        /\ r1 # r2
        /\ ipc[r1] = "done" /\ ipc[r2] = "done"
        /\ loaded[r1] = loaded[r2]
        /\ Len(loaded[r1][1].chunks) = 2
        /\ ids[r1] = ids[r2]
        /\ Cardinality(DOMAIN store) = 2

\* C2: chunk ids are collision-free per source. A successful upsert of n
\* chunks builds n pairwise distinct ids and yields ingested = n; into a
\* store holding no record of that source it adds exactly n records; the
\* run then returns ingested = n, the number of chunks load-and-chunk gave.
C2_IdsCollisionFree ==
    [][/\ \A r \in IngestRuns :
          UpsertOkStep(r) =>
             LET cs == loaded[r][1]
                 n == Len(cs.chunks)
             IN /\ Len(ids'[r]) = n
                /\ \A i, j \in 1..n : i # j => ids'[r][i] # ids'[r][j]
                /\ ingested'[r] = Some([ingested |-> n])
                /\ SourceRecords(store, cs.source_id) = {}
                      => Cardinality(DOMAIN store') = Cardinality(DOMAIN store) + n
       /\ \A r \in IngestRuns :
             ReturnStep(r) =>
                iresult'[r] = Some([ingested |-> Len(loaded[r][1].chunks)])]_vars

\* Both sources were ingested with two chunks each: four records.
C2_Witness ==
    \E r1, r2 \in IngestRuns :
        /\ ipc[r1] = "done" /\ ipc[r2] = "done"
        /\ iresult[r1] = Some([ingested |-> 2])
        /\ iresult[r2] = Some([ingested |-> 2])
        /\ loaded[r1][1].source_id # loaded[r2][1].source_id
        /\ Cardinality(DOMAIN store) = 4

\* C4: ingestion is append/overwrite-only. No step removes an id from the
\* store; an upsert step, failed or not, inserts or overwrites only at ids it
\* computes and leaves every other record as it was; no other step of an
\* ingest run touches the store.
C4_AppendOverwriteOnly ==
    [][/\ DOMAIN store \subseteq DOMAIN store'
       /\ \A r \in IngestRuns :
             UpsertStep(r) =>
                LET cs == loaded[r][1]
                    computed == Range(ChunkIds(cs.source_id, Len(cs.chunks)))
                IN /\ (DOMAIN store' \ DOMAIN store) \subseteq computed
                   /\ \A id \in DOMAIN store \ computed : store'[id] = store[id]
       /\ (\A r \in IngestRuns : ~UpsertStep(r)) => store' = store]_vars

\* A source was re-ingested with one chunk after two: its second record stays.
C4_Witness ==
    \E r \in IngestRuns :
        /\ ipc[r] = "done"
        /\ lastUpsert = r
        /\ Len(loaded[r][1].chunks) = 1
        /\ Cardinality(SourceRecords(store, loaded[r][1].source_id)) = 2

C8_State ==
    \A r \in IngestRuns :
        /\ ipc[r] = "upsert" => loaded[r] # None /\ stepErr[r] = "none"
        /\ stepErr[r] # "none" =>
              ipc[r] = "failed" /\ ingested[r] = None /\ iresult[r] = None
        /\ ipc[r] = "return" => ingested[r] # None /\ iresult[r] = None
        /\ ingested[r] # None => loaded[r] # None
        /\ stepErr[r] = "load-and-chunk" => loaded[r] = None /\ ids[r] = <<>>
        /\ iresult[r] # None => ipc[r] = "done" /\ iresult[r] = ingested[r]

C8_Step ==
    \A r \in IngestRuns :
        /\ (ipc[r] # "upsert" /\ ipc'[r] = "upsert")
              => /\ ipc[r] = "load"
                 /\ loaded'[r] # None
                 /\ loaded'[r][1].source_id = EventSourceId(ievent[r][1])
        /\ (ipc[r] = "load" /\ ipc'[r] = "failed") => store' = store /\ ids' = ids
        /\ UpsertOkStep(r)
              => LET cs == loaded[r][1]
                 IN /\ ids'[r] = ChunkIds(cs.source_id, Len(cs.chunks))
                    /\ \A j \in 1..Len(cs.chunks) :
                          store'[ids'[r][j]].payload =
                              [source |-> cs.source_id, text |-> cs.chunks[j]]

\* C8: the ingest steps run in order and a step failure fails the run.
\* embed-and-upsert starts only from a finished load-and-chunk and writes
\* exactly its chunks under its source_id; a failing load-and-chunk ends the
\* run failed with the store unchanged and no id built; a failing
\* embed-and-upsert ends the run failed with no ingested count.
C8_StepsInOrder == []C8_State /\ [][C8_Step]_vars

\* One run failed at load-and-chunk, the other at embed-and-upsert after
\* writing a record.
C8_Witness ==
    \E r1, r2 \in IngestRuns :
        /\ stepErr[r1] = "load-and-chunk" /\ ipc[r1] = "failed"
        /\ stepErr[r2] = "embed-and-upsert" /\ ipc[r2] = "failed"
        /\ iresult[r2] = None
        /\ store # EmptyStore

RECURSIVE SeqsUpTo(_, _)
SeqsUpTo(S, n) ==
    IF n = 0 THEN {<<>>}
    ELSE LET shorter == SeqsUpTo(S, n - 1)
         IN shorter \cup {Append(s, x) : s \in {t \in shorter : Len(t) = n - 1}, x \in S}

\* Source ids made of a letter, ':' and a digit.
ProbeSources == SeqsUpTo({"a", ":", "1"}, MaxSourceLen)

KeysOfDistinctSourcesDiffer ==
    \A s1, s2 \in ProbeSources :
        s1 # s2 => \A i, j \in 0..MaxIdx : ChunkKey(s1, i) # ChunkKey(s2, j)

\* C10: ingests of different sources do not interfere. The keys built for two
\* distinct source ids differ, whatever the indices, and an upsert step of a
\* run leaves every record of another source in the store and unchanged.
C10_SourcesDoNotInterfere ==
    /\ []KeysOfDistinctSourcesDiffer
    /\ [][\A r \in IngestRuns :
             UpsertStep(r) =>
                \A id \in DOMAIN store :
                    store[id].payload.source # loaded[r][1].source_id
                       => id \in DOMAIN store' /\ store'[id] = store[id]]_vars

\* Source "a" was upserted by a run that has not returned yet and source
\* "a:1" was ingested meanwhile; the store holds records of both.
C10_Witness ==
    \E r1, r2 \in IngestRuns :
        /\ ipc[r1] = "return" /\ ipc[r2] = "done"
        /\ lastUpsert = r2
        /\ loaded[r1][1].source_id = <<"a">>
        /\ loaded[r2][1].source_id = <<"a", ":", "1">>
        /\ Len(loaded[r1][1].chunks) = 2
        /\ SourceRecords(store, <<"a">>) # {}
        /\ SourceRecords(store, <<"a", ":", "1">>) # {}

(***************************************************************************)
(* Properties of the query workflow (QuerySpec).                           *)
(***************************************************************************)
\* C3: a query never mutates stored vectors. Every step of every query run,
\* whatever its outcome and whatever the other query runs do, leaves the
\* store as it was.
C3_QueryLeavesStore ==
    [][(\E q \in QueryRuns : qpc'[q] # qpc[q]) => store' = store]_vars

\* Over a filled store one query run succeeded, the other failed after its
\* search.
C3_Witness ==
    \E q1, q2 \in QueryRuns :
        /\ qpc[q1] = "done"
        /\ qpc[q2] = "failed" /\ found[q2] # None
        /\ Cardinality(DOMAIN store) >= 2

\* C7: the result of a successful query run has exactly the keys answer,
\* sources and num_contexts; num_contexts is the number of contexts the
\* search step returned and sources is that step's source list. A run that
\* has not succeeded has no result.
C7_QueryResultShape ==
    \A q \in QueryRuns :
        /\ qpc[q] = "done" =>
              /\ qresult[q] # None
              /\ DOMAIN qresult[q][1] = {"answer", "sources", "num_contexts"}
              /\ qresult[q][1].num_contexts = Len(found[q][1].contexts)
              /\ qresult[q][1].sources = found[q][1].sources
        /\ qpc[q] # "done" => qresult[q] = None

\* One run answered from no context; the other from two contexts of one
\* source listed once.
C7_Witness ==
    \E q1, q2 \in QueryRuns :
        /\ qpc[q1] = "done" /\ qresult[q1][1].num_contexts = 0
        /\ qresult[q1][1].sources = <<>>
        /\ qpc[q2] = "done" /\ qresult[q2][1].num_contexts = 2
        /\ Len(qresult[q2][1].sources) = 1

(***************************************************************************)
(* Properties of the polling client (PollSpec, PollFair).                  *)
(***************************************************************************)
TerminalStatuses == SuccessStatuses \cup FailureStatuses

\* What get_run_output does with the status it has just read: a success
\* status returns the run's output, a failure status returns 'Run <status>',
\* any other status returns nothing; success and output come only with a
\* success status.
C5_Mapping ==
    /\ ppc # "done" =>
          /\ result = None
          /\ status # None => status[1] \notin TerminalStatuses
    /\ (ppc = "done" /\ status # None) =>
          /\ status[1] \in SuccessStatuses =>
                result = Some(SuccessResult(DictGet(run[1], "output", EmptyDict)))
          /\ status[1] \in FailureStatuses =>
                result = Some(FailureResult(RunError(status[1])))
    /\ (result # None /\ (result[1].success \/ "output" \in DOMAIN result[1])) =>
          /\ status # None
          /\ status[1] \in SuccessStatuses
          /\ result[1].success
    /\ (status # None /\ status[1] \in FailureStatuses) =>
          RunError(status[1]) \in {<<"Run ", "failed">>, <<"Run ", "cancelled">>}

\* C5 as stated: a call whose last status was no terminal status can return
\* only the timeout failure.
C5_Original ==
    /\ C5_Mapping
    /\ (ppc = "done" /\ status # None /\ status[1] \notin TerminalStatuses) =>
          result = Some(FailureResult(TimeoutError))

\* C5, amended: the mapping of statuses holds as stated, and a call whose
\* last status was no terminal status returns the timeout failure or, when a
\* later status request raised, that exception's failure.
C5_TerminalStateMapping ==
    /\ C5_Mapping
    /\ (ppc = "done" /\ status # None /\ status[1] \notin TerminalStatuses) =>
          result = Some(FailureResult(IF exc = None THEN TimeoutError
                                      ELSE ExcError(exc[1])))

\* The call read 'Running' and a later request raised: a network error, not
\* the timeout, is returned.
C5_Witness ==
    /\ ppc = "done"
    /\ status = Some("Running")
    /\ exc # None
    /\ result = Some(FailureResult(<<"Network error: ", "boom">>))

Elapsed == now - start_time

\* C6: polling always ends. A call returns; it returns the timeout failure
\* exactly when the elapsed time has reached the timeout with no terminal
\* status read and no exception caught; a status request is issued only
\* while the elapsed time is below the timeout.
C6_PollingEnds ==
    /\ (ppc = "idle") ~> (ppc = "done")
    /\ [](ppc = "done" =>
            (result = Some(FailureResult(TimeoutError))
             <=> /\ keySet
                 /\ Elapsed >= timeout
                 /\ exc = None
                 /\ status = None \/ status[1] \notin TerminalStatuses))
    /\ [][(ppc # "request" /\ ppc' = "request") => Elapsed < timeout]_vars

\* A call with the default timeout timed out on a run still running.
C6_Witness ==
    /\ ppc = "done"
    /\ timeout = DefaultTimeout
    /\ Elapsed >= timeout
    /\ status = Some("Running")
    /\ result = Some(FailureResult(TimeoutError))

\* C9: the polling client does not retry after an error. The exception a
\* status request raises ends the call at once with success = False and the
\* error 'Network error: ...' or 'Error: ...'; a call that has returned
\* issues no request; every failure result has an error string and no output.
C9_NoRetryAfterError ==
    /\ [](exc # None =>
            /\ ppc = "done"
            /\ result = Some(FailureResult(ExcError(exc[1])))
            /\ result[1].error[1] \in {"Network error: ", "Error: "})
    /\ [](result # None /\ ~result[1].success =>
            /\ DOMAIN result[1] = {"success", "error"}
            /\ Len(result[1].error) > 0)
    /\ [][(exc = None /\ exc' # None) => (ppc = "request" /\ ppc' = "done")]_vars
    /\ [][ppc = "done" => (ppc' = "done" /\ result' = result)]_vars

\* A request raised after 'Running' was read, and the run has since
\* succeeded in the engine.
C9_Witness ==
    /\ exc # None
    /\ ppc = "done"
    /\ status = Some("Running")
    /\ engineRun.status \in SuccessStatuses
    /\ ~result[1].success

=============================================================================
